---------------------------- MODULE Spec2Model ----------------------------
(***************************************************************************)
(* A model of primesieve's wheel factorization engine,                     *)
(* src/src/soe/WheelFactorization.h: the packed WheelPrime record, the     *)
(* Bucket list, and WheelFactorization's constructor, add() and unsetBit().*)
(*                                                                         *)
(* The code computes with 32-bit (uint_t, uint32_t) and 64-bit (uint64_t)  *)
(* unsigned integers.  TLC's own integers stop at 2^31 - 1, so a machine   *)
(* integer is held as the sequence of its digits in base 2^15, least       *)
(* significant first and without leading zeros (<<>> is 0, <<5>> is 5,     *)
(* <<0, 1>> is 32768), and the arithmetic below works on these sequences.  *)
(* Values are exact naturals; a C++ operation is the exact operation       *)
(* followed by the truncation to the width of its result type.             *)
(***************************************************************************)
EXTENDS Integers, Sequences, FiniteSets, TLC

(***************************************************************************)
(* Unsigned machine arithmetic on digit sequences.                         *)
(***************************************************************************)
DigitBits == 15
Base == 2^DigitBits

RECURSIVE Norm(_)
Norm(s) ==
    IF s = <<>> THEN <<>>
    ELSE IF s[Len(s)] = 0 THEN Norm(SubSeq(s, 1, Len(s) - 1))
    ELSE s

RECURSIVE FromInt(_)
FromInt(n) ==
    IF n = 0 THEN <<>> ELSE <<n % Base>> \o FromInt(n \div Base)

\* only for values below 2^31
RECURSIVE ToInt(_)
ToInt(s) ==
    IF s = <<>> THEN 0 ELSE Head(s) + Base * ToInt(Tail(s))

Digit(s, i) == IF i <= Len(s) THEN s[i] ELSE 0

MaxLen(a, b) == IF Len(a) >= Len(b) THEN Len(a) ELSE Len(b)

RECURSIVE AddCarry(_, _, _, _)
AddCarry(a, b, i, c) ==
    IF i > MaxLen(a, b) THEN (IF c = 0 THEN <<>> ELSE <<c>>)
    ELSE LET t == Digit(a, i) + Digit(b, i) + c
         IN  <<t % Base>> \o AddCarry(a, b, i + 1, t \div Base)

NatAdd(a, b) == AddCarry(a, b, 1, 0)

RECURSIVE LessFrom(_, _, _)
LessFrom(a, b, i) ==
    IF i = 0 THEN FALSE
    ELSE IF Digit(a, i) # Digit(b, i) THEN Digit(a, i) < Digit(b, i)
    ELSE LessFrom(a, b, i - 1)

NatLess(a, b) == LessFrom(a, b, MaxLen(a, b))

NatLeq(a, b) == ~NatLess(b, a)

RECURSIVE SubBorrow(_, _, _, _)
SubBorrow(a, b, i, c) ==
    IF i > Len(a) THEN <<>>
    ELSE LET t == Digit(a, i) - Digit(b, i) - c
         IN  <<t % Base>> \o SubBorrow(a, b, i + 1, IF t < 0 THEN 1 ELSE 0)

\* a - b for a >= b
NatSub(a, b) == Norm(SubBorrow(a, b, 1, 0))

\* a * d for one digit d
RECURSIVE MulCarry(_, _, _, _)
MulCarry(a, d, i, c) ==
    IF i > Len(a) THEN (IF c = 0 THEN <<>> ELSE <<c>>)
    ELSE LET t == a[i] * d + c
         IN  <<t % Base>> \o MulCarry(a, d, i + 1, t \div Base)

MulDigit(a, d) == Norm(MulCarry(a, d, 1, 0))

RECURSIVE NatMul(_, _)
NatMul(a, b) ==
    IF b = <<>> \/ a = <<>> THEN <<>>
    ELSE NatAdd(MulDigit(a, Head(b)), Norm(<<0>> \o NatMul(a, Tail(b))))

\* the largest digit q with b * q <= r, for r < b * Base, by bisection
RECURSIVE QuotDigit(_, _, _, _)
QuotDigit(r, b, q, step) ==
    IF step = 0 THEN q
    ELSE IF NatLeq(MulDigit(b, q + step), r)
         THEN QuotDigit(r, b, q + step, step \div 2)
         ELSE QuotDigit(r, b, q, step \div 2)

\* [q |-> a / b, r |-> a % b] for b > 0, by long division from the most
\* significant digit of a (digit i) down
RECURSIVE DivLoop(_, _, _, _, _)
DivLoop(a, b, i, q, r) ==
    IF i = 0 THEN [q |-> Norm(q), r |-> r]
    ELSE LET r2 == Norm(<<a[i]>> \o r)
             d  == QuotDigit(r2, b, 0, Base \div 2)
         IN  DivLoop(a, b, i - 1, <<d>> \o q, NatSub(r2, MulDigit(b, d)))

DivMod(a, b) == DivLoop(a, b, Len(a), <<>>, <<>>)

NatDiv(a, b) == DivMod(a, b).q

NatMod(a, b) == DivMod(a, b).r

\* 2^k
Pow2(k) == [i \in 1..(k \div DigitBits) |-> 0] \o <<2^(k % DigitBits)>>

\* a % 2^w: the conversion to an unsigned type of w bits
Trunc(a, w) ==
    LET k == w \div DigitBits
        n == IF Len(a) <= k THEN Len(a) ELSE k + 1
    IN  Norm([i \in 1..n |-> IF i <= k THEN a[i] ELSE a[i] % 2^(w % DigitBits)])

\* a << k and a >> k, before any truncation
Shl(a, k) == NatMul(a, Pow2(k))

Shr(a, k) == NatDiv(a, Pow2(k))

RECURSIVE IntOr(_, _)
IntOr(x, y) ==
    IF x = 0 THEN y ELSE IF y = 0 THEN x
    ELSE (IF (x % 2) + (y % 2) > 0 THEN 1 ELSE 0) + 2 * IntOr(x \div 2, y \div 2)

RECURSIVE IntAnd(_, _)
IntAnd(x, y) ==
    IF x = 0 \/ y = 0 THEN 0
    ELSE (x % 2) * (y % 2) + 2 * IntAnd(x \div 2, y \div 2)

\* a | b and a & b
BitOr(a, b) ==
    Norm([i \in 1..MaxLen(a, b) |-> IntOr(Digit(a, i), Digit(b, i))])

BitAnd(a, b) ==
    Norm([i \in 1..MaxLen(a, b) |-> IntAnd(Digit(a, i), Digit(b, i))])

\* widths of the code's integer types
Uint32Bits == 32
Uint64Bits == 64
\* uint_t: the type of a prime (line 215), whose maximum line 200 takes to
\* be that of uint32_t
UintBits == 32

Uint32Max == NatSub(Pow2(Uint32Bits), <<1>>)
Uint64Max == NatSub(Pow2(Uint64Bits), <<1>>)

\* the result of a uint64_t / uint_t / uint32_t operation whose exact value is x
U64(x) == Trunc(x, Uint64Bits)
Uint(x) == Trunc(x, UintBits)
U32(x) == Trunc(x, Uint32Bits)

\* a - b in uint64_t (wraps below zero)
U64Sub(a, b) ==
    IF NatLeq(b, a) THEN NatSub(a, b)
    ELSE NatSub(NatAdd(a, Pow2(Uint64Bits)), b)


(***************************************************************************)
(* The state.  Each specification below drives one part of the file and    *)
(* leaves the other parts' variables alone.                                *)
(*   wheelPrime, wpCalls     a WheelPrime object; the member calls made    *)
(*   buckets                 the Bucket objects allocated so far, in order *)
(*                           of allocation; a Bucket* is an index into it  *)
(*   tail                    the Bucket* the caller currently stores into  *)
(*   stored                  the records stored so far, in order           *)
(*   lastStore               the last Bucket::store call: its object, the  *)
(*                           cursor it found, its arguments and its result *)
(*   engine                  a WheelFactorization<MODULO, SIZE, INIT,      *)
(*                           WHEEL> object: its template argument MODULO,  *)
(*                           its stop_, and where its life stands          *)
(*   ctorCall                the constructor call that made it             *)
(*   addCall                 the add() call that has just returned: its    *)
(*                           arguments, the store() calls it made and the  *)
(*                           exact value of each 64-bit operation it did   *)
(*   sieve                   the bytes of the sieve array of one segment   *)
(*   sieving                 the record of the prime being sieved with:    *)
(*                           what add() handed over for it, and the        *)
(*                           arguments of that add() call                  *)
(*   crossedOff              the unsetBit calls made so far: the           *)
(*                           multipleIndex each found on entry and the     *)
(*                           mask it applied                               *)
(***************************************************************************)
VARIABLES wheelPrime, wpCalls, buckets, tail, stored, lastStore,
          engine, ctorCall, addCall, sieve, sieving, crossedOff

wpVars == <<wheelPrime, wpCalls>>
bucketVars == <<buckets, tail, stored, lastStore>>
engineVars == <<engine, ctorCall, addCall>>
sieveVars == <<sieve, sieving, crossedOff>>
vars == <<wpVars, bucketVars, engineVars, sieveVars>>

\* the parts a specification does not drive: nothing allocated, nothing called
WPIdle == wheelPrime = <<>> /\ wpCalls = <<>>
BucketIdle == buckets = <<>> /\ tail = 0 /\ stored = <<>> /\ lastStore = <<>>
EngineIdle == engine = <<>> /\ ctorCall = <<>> /\ addCall = <<>>
SieveIdle == sieve = <<>> /\ sieving = <<>> /\ crossedOff = <<>>

(***************************************************************************)
(* class WheelPrime: [indexes_, sievingPrime_], two uint32_t.              *)
(***************************************************************************)
MultipleIndexBits == 23
WheelIndexBits == 9

getMaxSieveSize == Uint(Shl(<<1>>, MultipleIndexBits))

\* the two assert()s of set(multipleIndex, wheelIndex)
setAsserts(multipleIndex, wheelIndex) ==
    /\ NatLess(multipleIndex, Uint(Shl(<<1>>, MultipleIndexBits)))
    /\ NatLess(wheelIndex, Uint(Shl(<<1>>, WheelIndexBits)))

\* a fault-seeded variant of set(multipleIndex, wheelIndex): the two values are
\* OR-ed into the word, as setMultipleIndex does, instead of replacing it
set2_OrsIntoPrior(wp, multipleIndex, wheelIndex) ==
    [wp EXCEPT !.indexes_ =
        U32(BitOr(wp.indexes_,
                  BitOr(multipleIndex, Uint(Shl(wheelIndex, MultipleIndexBits)))))]

\* void set(uint_t multipleIndex, uint_t wheelIndex)
set2(wp, multipleIndex, wheelIndex) ==
    [wp EXCEPT !.indexes_ =
        U32(BitOr(multipleIndex, Uint(Shl(wheelIndex, MultipleIndexBits))))]

\* void set(uint_t sievingPrime, uint_t multipleIndex, uint_t wheelIndex)
set(wp, sievingPrime, multipleIndex, wheelIndex) ==
    [set2(wp, multipleIndex, wheelIndex) EXCEPT !.sievingPrime_ = U32(sievingPrime)]

setMultipleIndex(wp, multipleIndex) ==
    [wp EXCEPT !.indexes_ = U32(BitOr(wp.indexes_, multipleIndex))]

\* a fault-seeded variant of setWheelIndex: the multipleIndex bits are kept
setWheelIndex_KeepsMultipleIndex(wp, wheelIndex) ==
    [wp EXCEPT !.indexes_ =
        U32(BitOr(BitAnd(wp.indexes_, NatSub(Shl(<<1>>, MultipleIndexBits), <<1>>)),
                  Uint(Shl(wheelIndex, MultipleIndexBits))))]

setWheelIndex(wp, wheelIndex) ==
    [wp EXCEPT !.indexes_ = U32(Uint(Shl(wheelIndex, MultipleIndexBits)))]

getSievingPrime(wp) == wp.sievingPrime_

getMultipleIndex(wp) ==
    BitAnd(wp.indexes_, NatSub(Shl(<<1>>, MultipleIndexBits), <<1>>))

getWheelIndex(wp) == Shr(wp.indexes_, MultipleIndexBits)

(***************************************************************************)
(* WheelPrime driven by its callers: a record with arbitrary prior content *)
(* (the class has no constructor) receives up to MaxCalls member calls     *)
(* whose arguments satisfy the asserts.                                    *)
(***************************************************************************)
MaxCalls == 2

\* argument values: the least, the greatest and one in between
MultipleIndexArgs ==
    {<<>>, FromInt(4001), NatSub(Pow2(MultipleIndexBits), <<1>>)}
WheelIndexArgs ==
    {<<>>, FromInt(383), NatSub(Pow2(WheelIndexBits), <<1>>)}
SievingPrimeArgs ==
    {<<>>, FromInt(143165576), Uint32Max}
\* what the two uninitialised words may hold
PriorWords ==
    {<<>>, FromInt(1234567890), Uint32Max}

WPInit ==
    /\ wheelPrime \in [indexes_ : PriorWords, sievingPrime_ : PriorWords]
    /\ wpCalls = <<>>
    /\ BucketIdle /\ EngineIdle /\ SieveIdle

WPSet(sievingPrime, multipleIndex, wheelIndex) ==
    /\ Len(wpCalls) < MaxCalls
    /\ setAsserts(multipleIndex, wheelIndex)
    /\ wheelPrime' = set(wheelPrime, sievingPrime, multipleIndex, wheelIndex)
    /\ UNCHANGED <<bucketVars, engineVars, sieveVars>>
    /\ wpCalls' = Append(wpCalls, [op |-> "set", sievingPrime |-> sievingPrime,
                    multipleIndex |-> multipleIndex, wheelIndex |-> wheelIndex])

WPSetWheelIndex(wheelIndex) ==
    /\ Len(wpCalls) < MaxCalls
    /\ NatLess(wheelIndex, Uint(Shl(<<1>>, WheelIndexBits)))
    /\ wheelPrime' = setWheelIndex(wheelPrime, wheelIndex)
    /\ UNCHANGED <<bucketVars, engineVars, sieveVars>>
    /\ wpCalls' = Append(wpCalls, [op |-> "setWheelIndex",
                    sievingPrime |-> getSievingPrime(wheelPrime),
                    multipleIndex |-> getMultipleIndex(wheelPrime),
                    wheelIndex |-> wheelIndex])

WPSetMultipleIndex(multipleIndex) ==
    /\ Len(wpCalls) < MaxCalls
    /\ NatLess(multipleIndex, Uint(Shl(<<1>>, MultipleIndexBits)))
    /\ wheelPrime' = setMultipleIndex(wheelPrime, multipleIndex)
    /\ UNCHANGED <<bucketVars, engineVars, sieveVars>>
    /\ wpCalls' = Append(wpCalls, [op |-> "setMultipleIndex",
                    sievingPrime |-> getSievingPrime(wheelPrime),
                    multipleIndex |-> multipleIndex,
                    wheelIndex |-> getWheelIndex(wheelPrime)])

WPNext ==
    \/ \E sp \in SievingPrimeArgs, m \in MultipleIndexArgs, w \in WheelIndexArgs :
          WPSet(sp, m, w)
    \/ \E w \in WheelIndexArgs : WPSetWheelIndex(w)
    \/ \E m \in MultipleIndexArgs : WPSetMultipleIndex(m)

SpecWheelPrime == WPInit /\ [][WPNext]_vars

(***************************************************************************)
(* class Bucket: [current_, next_, wheelPrimes_].  current_ is held as the *)
(* offset current_ - wheelPrimes_, so begin() is 0 and last() is           *)
(* BUCKETSIZE - 1.                                                         *)
(***************************************************************************)
\* config::BUCKETSIZE
BUCKETSIZE == 3

NULL == 0
\* a non-null pointer value that is the address of no Bucket
WildPtr == -1

\* a word no statement has written yet
Indeterminate == <<-1>>

\* Bucket() and Bucket(const Bucket&) initialise current_ and nothing else:
\* next_ holds whatever the memory held (garbage), the slots are unwritten
Bucket(garbage) ==
    [current_ |-> 0,
     next_ |-> garbage,
     wheelPrimes_ |-> [i \in 0..(BUCKETSIZE - 1) |->
                        [indexes_ |-> Indeterminate, sievingPrime_ |-> Indeterminate]]]

begin(b) == 0
last(b) == BUCKETSIZE - 1
end(b) == b.current_
next(b) == b.next_
hasNext(b) == b.next_ # NULL
empty(b) == begin(b) = end(b)
\* a fault-seeded variant of reset: the node is rewound and unlinked
reset_ClearsNext(b) == [b EXCEPT !.current_ = begin(b), !.next_ = NULL]

reset(b) == [b EXCEPT !.current_ = begin(b)]
\* a fault-seeded variant of setNext: the node is linked and rewound
setNext_Rewinds(b, nxt) == [b EXCEPT !.next_ = nxt, !.current_ = begin(b)]

setNext(b, nxt) == [b EXCEPT !.next_ = nxt]

\* fault-seeded variants of store: the record is written through the advanced
\* cursor; the advanced cursor is the one compared with last()
store_WriteAdvanced(b, sievingPrime, multipleIndex, wheelIndex) ==
    LET wPrime == b.current_
    IN  [bucket |-> [b EXCEPT !.current_ = wPrime + 1,
                              !.wheelPrimes_[wPrime + 1] =
                                  set(@, sievingPrime, multipleIndex, wheelIndex)],
         ret |-> wPrime # last(b)]

store_CompareAdvanced(b, sievingPrime, multipleIndex, wheelIndex) ==
    LET wPrime == b.current_
    IN  [bucket |-> [b EXCEPT !.current_ = wPrime + 1,
                              !.wheelPrimes_[wPrime] =
                                  set(@, sievingPrime, multipleIndex, wheelIndex)],
         ret |-> wPrime + 1 # last(b)]

\* bool store(sievingPrime, multipleIndex, wheelIndex): the Bucket after the
\* call and the value returned
store(b, sievingPrime, multipleIndex, wheelIndex) ==
    LET wPrime == b.current_
    IN  [bucket |-> [b EXCEPT !.current_ = wPrime + 1,
                              !.wheelPrimes_[wPrime] =
                                  set(@, sievingPrime, multipleIndex, wheelIndex)],
         ret |-> wPrime # last(b)]

\* the records of [begin(), end()) of a Bucket, in order
Filled(b) == [i \in 1..(end(b) - begin(b)) |-> b.wheelPrimes_[begin(b) + i - 1]]

\* for (b = first; ; b = b->next()) { read [begin, end); if (!b->hasNext()) break; }
\* the records read and the Bucket* the walk ended at; a step through a
\* pointer that is the address of no Bucket ends it at that pointer
RECURSIVE Walk(_, _)
Walk(bs, p) ==
    IF p \notin DOMAIN bs THEN [records |-> <<>>, last |-> p]
    ELSE IF ~hasNext(bs[p]) THEN [records |-> Filled(bs[p]), last |-> p]
    ELSE LET w == Walk(bs, next(bs[p]))
         IN  [records |-> Filled(bs[p]) \o w.records, last |-> w.last]

(***************************************************************************)
(* A bucket list driven by its caller: it starts as one fresh Bucket; the  *)
(* caller stores records into the tail and, when store returns false,      *)
(* allocates a fresh Bucket, links it with setNext and makes it the tail.  *)
(***************************************************************************)
MaxStored == 7

\* the records the caller stores: <<sievingPrime, multipleIndex, wheelIndex>>
StoreArgs ==
    {<<FromInt(1), FromInt(4001), FromInt(383)>>,
     <<Uint32Max, NatSub(Pow2(MultipleIndexBits), <<1>>), <<>>>>}

Garbage == {NULL, WildPtr}

BucketInit ==
    /\ \E g \in Garbage : buckets = <<Bucket(g)>>
    /\ tail = 1
    /\ stored = <<>>
    /\ lastStore = [bucket |-> NULL]
    /\ WPIdle /\ EngineIdle /\ SieveIdle

CallerStore(rec) ==
    /\ Len(stored) < MaxStored
    /\ setAsserts(rec[2], rec[3])
    /\ LET s == store(buckets[tail], rec[1], rec[2], rec[3])
       IN  /\ lastStore' = [bucket |-> tail, cursor |-> buckets[tail].current_,
                            rec |-> rec, ret |-> s.ret]
           /\ stored' = Append(stored, rec)
           /\ UNCHANGED <<wpVars, engineVars, sieveVars>>
           /\ IF s.ret
              THEN /\ buckets' = [buckets EXCEPT ![tail] = s.bucket]
                   /\ tail' = tail
              ELSE \E g \in Garbage :
                   /\ buckets' = Append([buckets EXCEPT
                                    ![tail] = setNext(s.bucket, Len(buckets) + 1)],
                                    Bucket(g))
                   /\ tail' = Len(buckets) + 1

BucketNext == \E rec \in StoreArgs : CallerStore(rec)

SpecBucket == BucketInit /\ [][BucketNext]_vars

(***************************************************************************)
(* One Bucket reused by its owner: records are stored into it while it has *)
(* a free slot (after the store that returned false it has none), it is    *)
(* linked to another node or unlinked with setNext, and it is rewound with *)
(* reset() to be filled again.  stored holds the records stored since the  *)
(* last reset(); lastStore holds the last call, the Bucket before it, the  *)
(* value a store returned, the number of reset() calls so far and the      *)
(* filled prefix the last reset() dropped.                                 *)
(***************************************************************************)
MaxResets == 2

\* the values setNext is given: no node, another node
NextArgs == {NULL, 2}

ReuseInit ==
    /\ \E g \in Garbage : buckets = <<Bucket(g)>>
    /\ tail = 1
    /\ stored = <<>>
    /\ lastStore = [op |-> "none", before |-> NULL, ret |-> TRUE, resets |-> 0,
                    dropped |-> <<>>]
    /\ WPIdle /\ EngineIdle /\ SieveIdle

ReuseStore(rec) ==
    /\ buckets[1].current_ <= last(buckets[1])
    /\ setAsserts(rec[2], rec[3])
    /\ LET s == store(buckets[1], rec[1], rec[2], rec[3])
       IN  /\ buckets' = <<s.bucket>>
           /\ lastStore' = [lastStore EXCEPT !.op = "store", !.before = buckets[1],
                                             !.ret = s.ret]
    /\ stored' = Append(stored, rec)
    /\ UNCHANGED <<tail, wpVars, engineVars, sieveVars>>

ReuseSetNext(nxt) ==
    /\ next(buckets[1]) # nxt
    /\ buckets' = <<setNext(buckets[1], nxt)>>
    /\ lastStore' = [lastStore EXCEPT !.op = "setNext", !.before = buckets[1]]
    /\ UNCHANGED <<tail, stored, wpVars, engineVars, sieveVars>>

ReuseReset ==
    /\ lastStore.resets < MaxResets
    /\ buckets' = <<reset(buckets[1])>>
    /\ stored' = <<>>
    /\ lastStore' = [lastStore EXCEPT !.op = "reset", !.before = buckets[1],
                                      !.resets = @ + 1,
                                      !.dropped = Filled(buckets[1])]
    /\ UNCHANGED <<tail, wpVars, engineVars, sieveVars>>

ReuseNext ==
    \/ \E rec \in StoreArgs : ReuseStore(rec)
    \/ \E nxt \in NextArgs : ReuseSetNext(nxt)
    \/ ReuseReset

SpecBucketReuse == ReuseInit /\ [][ReuseNext]_vars

(***************************************************************************)
(* The wheel tables wheel30Init, wheel210Init, wheel30 and wheel210         *)
(* (declared at lines 90-93, defined in WheelFactorization.cpp): built     *)
(* here from what the specification says of them.  Small values, held as   *)
(* TLC integers.                                                           *)
(***************************************************************************)
WheelPrimes(MODULO) == IF MODULO = 30 THEN {2, 3, 5} ELSE {2, 3, 5, 7}

CoprimeToWheel(n, MODULO) == \A p \in WheelPrimes(MODULO) : n % p # 0

\* the residues coprime to the wheel's primes, in ascending order: spoke j is
\* Spokes(MODULO)[j]
Spokes(MODULO) ==
    LET S == {x \in 1..(MODULO - 1) : CoprimeToWheel(x, MODULO)}
    IN  [j \in 0..(Cardinality(S) - 1) |->
            CHOOSE x \in S : Cardinality({y \in S : y < x}) = j]

\* WheelInit[r]: the least k >= 0 with r + k coprime to the wheel's primes, and
\* the spoke r + k is
WheelInitTable(MODULO) ==
    [r \in 0..(MODULO - 1) |->
        LET k == CHOOSE k \in 0..MODULO :
                    /\ CoprimeToWheel(r + k, MODULO)
                    /\ \A j \in 0..(k - 1) : ~CoprimeToWheel(r + j, MODULO)
        IN  [nextMultipleFactor |-> k,
             wheelIndex |-> Cardinality({y \in 1..(r + k - 1) : CoprimeToWheel(y, MODULO)})]]

\* the residues mod 30 of the primes of the 8 groups of SIZE wheel elements, in
\* the order wheelOffsets_ gives the groups
GroupResidue == <<7, 11, 13, 17, 19, 23, 29, 1>>

\* a byte of the sieve holds the 8 numbers 30 i + {7, 11, 13, 17, 19, 23, 29, 31}
\* above segmentLow: the bit of the number with residue r mod 30
BitOf(r) == CHOOSE b \in 0..7 : GroupResidue[b + 1] = r

\* WheelElement[g * SIZE + j]: a prime with residue GroupResidue[g + 1] at a
\* multiple whose quotient is on spoke j
WheelTable(MODULO) ==
    LET spokes == Spokes(MODULO)
        SIZE == Cardinality(DOMAIN spokes)
    IN  [i \in 0..(8 * SIZE - 1) |->
            LET p == GroupResidue[(i \div SIZE) + 1]
                j == i % SIZE
                q == spokes[j]
                m == (p * q) % 30
                f == IF j = SIZE - 1 THEN MODULO + spokes[0] - q ELSE spokes[j + 1] - q
                off == ((m + 23) % 30) + 1
            IN  [unsetBit |-> 255 - 2^BitOf(m),
                 nextMultipleFactor |-> f,
                 correct |-> (off + f * p) \div 30,
                 next |-> IF j = SIZE - 1 THEN 0 - (SIZE - 1) ELSE 1]]

\* the uint_t prime is divisible by none of the wheel's primes
PrimeCoprime(MODULO, prime) ==
    \A p \in WheelPrimes(MODULO) : NatMod(prime, FromInt(p)) # <<>>

wheel30Init == WheelInitTable(30)
wheel210Init == WheelInitTable(210)
wheel30 == WheelTable(30)
wheel210 == WheelTable(210)

(***************************************************************************)
(* template <MODULO, SIZE, INIT, WHEEL> class WheelFactorization, in its   *)
(* two instantiations Modulo30Wheel_t and Modulo210Wheel_t (lines 287,     *)
(* 289), told apart by MODULO.                                             *)
(***************************************************************************)
SIZE(MODULO) == IF MODULO = 30 THEN 8 ELSE 48
INIT(MODULO) == IF MODULO = 30 THEN wheel30Init ELSE wheel210Init
WHEEL(MODULO) == IF MODULO = 30 THEN wheel30 ELSE wheel210

Invalid == 255

\* a fault-seeded variant of wheelOffsets_: the residues without a group get
\* the offset 0
wheelOffsets__NoSentinel(MODULO) ==
    [r \in 0..29 |->
        CASE r = 1  -> 7 * SIZE(MODULO)
          [] r = 11 -> 1 * SIZE(MODULO)
          [] r = 13 -> 2 * SIZE(MODULO)
          [] r = 17 -> 3 * SIZE(MODULO)
          [] r = 19 -> 4 * SIZE(MODULO)
          [] r = 23 -> 5 * SIZE(MODULO)
          [] r = 29 -> 6 * SIZE(MODULO)
          [] OTHER  -> 0]

wheelOffsets_(MODULO) ==
    [r \in 0..29 |->
        CASE r = 1  -> 7 * SIZE(MODULO)
          [] r = 7  -> 0 * SIZE(MODULO)
          [] r = 11 -> 1 * SIZE(MODULO)
          [] r = 13 -> 2 * SIZE(MODULO)
          [] r = 17 -> 3 * SIZE(MODULO)
          [] r = 19 -> 4 * SIZE(MODULO)
          [] r = 23 -> 5 * SIZE(MODULO)
          [] r = 29 -> 6 * SIZE(MODULO)
          [] OTHER  -> Invalid]

getMaxFactor(MODULO) == FromInt(WHEEL(MODULO)[0].nextMultipleFactor)

\* a fault-seeded variant of getMaxStop: no margin left below 2^64 - 1
getMaxStop_NoMargin(MODULO) == Uint64Max

getMaxStop(MODULO) ==
    LET maxPrime == Uint32Max
    IN  U64Sub(Uint64Max, U64(NatMul(maxPrime, getMaxFactor(MODULO))))

\* a fault-seeded variant of the constructor: stop >= getMaxStop() throws
WheelFactorization_ThrowsAtMaxStop(MODULO, stop, sieveSize) ==
    LET maxSieveSize == getMaxSieveSize
    IN  IF NatLess(maxSieveSize, sieveSize) THEN [thrown |-> TRUE]
        ELSE IF NatLeq(getMaxStop(MODULO), stop) THEN [thrown |-> TRUE]
        ELSE [thrown |-> FALSE, stop_ |-> stop]

\* WheelFactorization(stop, sieveSize): whether it throws primesieve_error, and
\* the object otherwise
WheelFactorization(MODULO, stop, sieveSize) ==
    LET maxSieveSize == getMaxSieveSize
    IN  IF NatLess(maxSieveSize, sieveSize) THEN [thrown |-> TRUE]
        ELSE IF NatLess(getMaxStop(MODULO), stop) THEN [thrown |-> TRUE]
        ELSE [thrown |-> FALSE, stop_ |-> stop]

\* multiple > stop_ (lines 222 and 233)
beyondStop_OrAtStop(multiple, stop_) == NatLeq(stop_, multiple)

beyondStop(multiple, stop_) == NatLess(stop_, multiple)

\* a fault-seeded variant of the index computation: the index counts from 0,
\* not from the segment's lower bound
multipleIndexOf_Absolute(multiple, segmentLow) ==
    Uint(NatDiv(multiple, FromInt(30)))

\* static_cast<uint_t>((multiple - segmentLow) / 30) (line 235)
multipleIndexOf(multiple, segmentLow) ==
    Uint(NatDiv(U64Sub(multiple, segmentLow), FromInt(30)))

\* lines 217-236 of add(prime, segmentLow) in an object with this stop_:
\*   retired        whether one of the two returns was taken
\*   multipleIndex, wheelIndex   the two locals, when it was not
\*   exact          the exact value of each 64-bit sum and product computed, in
\*                  order (the code keeps each modulo 2^64)
firstMultiple(MODULO, stop_, prime, segmentLow0) ==
    LET sum1 == NatAdd(segmentLow0, FromInt(6))
        segmentLow == U64(sum1)
        quotient0 == U64(NatAdd(NatDiv(segmentLow, prime), <<1>>))
        prod1 == NatMul(prime, quotient0)
        multiple0 == U64(prod1)
    IN  IF beyondStop(multiple0, stop_)
        THEN [retired |-> TRUE, exact |-> <<sum1, prod1>>]
        ELSE
    LET prod2 == NatMul(prime, prime)
        square == U64(prod2)
        below == NatLess(multiple0, square)
        multiple1 == IF below THEN square ELSE multiple0
        quotient == IF below THEN prime ELSE quotient0
        init == INIT(MODULO)[ToInt(NatMod(quotient, FromInt(MODULO)))]
        prod3 == NatMul(prime, FromInt(init.nextMultipleFactor))
        sum2 == NatAdd(multiple1, U64(prod3))
        multiple == U64(sum2)
        exact == <<sum1, prod1, prod2, prod3, sum2>>
    IN  IF beyondStop(multiple, stop_)
        THEN [retired |-> TRUE, exact |-> exact]
        ELSE [retired |-> FALSE, exact |-> exact,
              multipleIndex |-> multipleIndexOf(multiple, segmentLow),
              wheelIndex |-> Uint(NatAdd(
                  FromInt(wheelOffsets_(MODULO)[ToInt(NatMod(prime, FromInt(30)))]),
                  FromInt(init.wheelIndex)))]

\* a fault-seeded variant of add: the sieving prime, prime / 30, is what is
\* handed to store
add_StoresSievingPrime(MODULO, stop_, prime, segmentLow) ==
    LET m == firstMultiple(MODULO, stop_, prime, segmentLow)
    IN  [exact |-> m.exact,
         calls |-> IF m.retired THEN <<>>
                   ELSE <<[sievingPrime |-> NatDiv(prime, FromInt(30)),
                           multipleIndex |-> m.multipleIndex,
                           wheelIndex |-> m.wheelIndex]>>]

\* void add(uint_t prime, uint64_t segmentLow): the calls of the pure virtual
\* store(uint_t, uint_t, uint_t) it makes, in order, each with its three
\* arguments (named as Bucket::store names them)
add(MODULO, stop_, prime, segmentLow) ==
    LET m == firstMultiple(MODULO, stop_, prime, segmentLow)
    IN  [exact |-> m.exact,
         calls |-> IF m.retired THEN <<>>
                   ELSE <<[sievingPrime |-> prime,
                           multipleIndex |-> m.multipleIndex,
                           wheelIndex |-> m.wheelIndex]>>]

(***************************************************************************)
(* An engine driven by its owner: constructed once, with either wheel;     *)
(* after a construction that did not throw, add() is called any number of  *)
(* times with a prime and the lower bound of a segment of [0, stop].       *)
(***************************************************************************)
Modulos == {30, 210}

Billion == NatMul(FromInt(1000000), FromInt(1000))

StopArgs ==
    {FromInt(1001), NatMul(FromInt(200), Billion),
     getMaxStop(210), NatAdd(getMaxStop(210), <<1>>),
     getMaxStop(30), NatAdd(getMaxStop(30), <<1>>), Uint64Max}

SieveSizeArgs ==
    {FromInt(1024), getMaxSieveSize, NatAdd(getMaxSieveSize, <<1>>)}

\* primes: wheel primes, the first sieving primes, primes whose square is
\* beyond 30 * 2^23 and 30 * 2^32, and the greatest prime below 2^32
MaxPrime32 == NatSub(Pow2(32), FromInt(5))

PrimeArgs ==
    {FromInt(2), FromInt(3), FromInt(5), FromInt(7), FromInt(11), FromInt(13), FromInt(31),
     FromInt(15877), FromInt(400009), MaxPrime32}

\* segment lower bounds: the first segments, segments just below and above
\* the squares of the larger primes, and the last segments below getMaxStop()
SegmentLowArgs ==
    {<<>>, FromInt(30), FromInt(960),
     FromInt(252079110),
     NatSub(NatMul(FromInt(400009), FromInt(400009)), FromInt(31)),
     NatSub(NatMul(MaxPrime32, MaxPrime32), FromInt(31)),
     NatSub(getMaxStop(210), FromInt(15)),
     NatSub(getMaxStop(30), FromInt(15)),
     NatSub(Uint64Max, FromInt(15))}

EngineInit ==
    /\ engine = [state |-> "unconstructed"]
    /\ ctorCall = <<>>
    /\ addCall = <<>>
    /\ WPIdle /\ BucketIdle /\ SieveIdle

Construct(MODULO, stop, sieveSize) ==
    /\ engine.state = "unconstructed"
    /\ LET c == WheelFactorization(MODULO, stop, sieveSize)
       IN  /\ ctorCall' = [MODULO |-> MODULO, stop |-> stop,
                           sieveSize |-> sieveSize, thrown |-> c.thrown]
           /\ engine' = IF c.thrown THEN [state |-> "thrown"]
                        ELSE [state |-> "ready", MODULO |-> MODULO, stop_ |-> c.stop_]
    /\ UNCHANGED <<addCall, wpVars, bucketVars, sieveVars>>

Add(prime, segmentLow) ==
    /\ engine.state = "ready"
    /\ addCall = <<>>
    /\ NatLeq(segmentLow, engine.stop_)
    /\ LET a == add(engine.MODULO, engine.stop_, prime, segmentLow)
       IN  addCall' = [prime |-> prime, segmentLow |-> segmentLow,
                       calls |-> a.calls, exact |-> a.exact]
    /\ UNCHANGED <<engine, ctorCall, wpVars, bucketVars, sieveVars>>

\* the owner takes the result and goes on to its next call
AddReturn ==
    /\ addCall # <<>>
    /\ addCall' = <<>>
    /\ UNCHANGED <<engine, ctorCall, wpVars, bucketVars, sieveVars>>

EngineNext ==
    \/ \E M \in Modulos, stop \in StopArgs, sieveSize \in SieveSizeArgs :
          Construct(M, stop, sieveSize)
    \/ \E prime \in PrimeArgs, segmentLow \in SegmentLowArgs : Add(prime, segmentLow)
    \/ AddReturn

SpecEngine == EngineInit /\ [][EngineNext]_vars

(***************************************************************************)
(* static void unsetBit(uint8_t* sieve, uint_t sievingPrime,               *)
(*                      uint_t* multipleIndex, uint_t* wheelIndex)         *)
(* A byte of the sieve is a TLC integer in 0..255; *multipleIndex and      *)
(* *wheelIndex are uint_t.                                                 *)
(***************************************************************************)
\* x + d in uint_t, for a signed d (int8_t, promoted and converted)
UintAddSigned(x, d) ==
    IF d >= 0 THEN Uint(NatAdd(x, FromInt(d)))
    ELSE Uint(NatAdd(x, NatSub(Pow2(UintBits), FromInt(0 - d))))

\* a fault-seeded variant of unsetBit: the correction term is left out
unsetBit_NoCorrect(MODULO, sv, sievingPrime, multipleIndex, wheelIndex) ==
    LET w == WHEEL(MODULO)[ToInt(wheelIndex)]
    IN  [sieve |-> [sv EXCEPT ![ToInt(multipleIndex)] = IntAnd(@, w.unsetBit)],
         multipleIndex |->
             Uint(NatAdd(multipleIndex,
                         Uint(NatMul(FromInt(w.nextMultipleFactor), sievingPrime)))),
         wheelIndex |-> UintAddSigned(wheelIndex, w.next)]

\* a fault-seeded variant of unsetBit: the wheel index always steps by one
unsetBit_NoWrap(MODULO, sv, sievingPrime, multipleIndex, wheelIndex) ==
    LET w == WHEEL(MODULO)[ToInt(wheelIndex)]
        stepped == Uint(NatAdd(multipleIndex,
                        Uint(NatMul(FromInt(w.nextMultipleFactor), sievingPrime))))
    IN  [sieve |-> [sv EXCEPT ![ToInt(multipleIndex)] = IntAnd(@, w.unsetBit)],
         multipleIndex |-> Uint(NatAdd(stepped, FromInt(w.correct))),
         wheelIndex |-> UintAddSigned(wheelIndex, 1)]

\* a fault-seeded variant of unsetBit: the mask is assigned to the byte, not
\* and-ed into it
unsetBit_Assigns(MODULO, sv, sievingPrime, multipleIndex, wheelIndex) ==
    LET w == WHEEL(MODULO)[ToInt(wheelIndex)]
        stepped == Uint(NatAdd(multipleIndex,
                        Uint(NatMul(FromInt(w.nextMultipleFactor), sievingPrime))))
    IN  [sieve |-> [sv EXCEPT ![ToInt(multipleIndex)] = w.unsetBit],
         multipleIndex |-> Uint(NatAdd(stepped, FromInt(w.correct))),
         wheelIndex |-> UintAddSigned(wheelIndex, w.next)]

\* a fault-seeded variant of unsetBit: the byte is and-ed with the complement
\* of the mask
unsetBit_AndsComplement(MODULO, sv, sievingPrime, multipleIndex, wheelIndex) ==
    LET w == WHEEL(MODULO)[ToInt(wheelIndex)]
        stepped == Uint(NatAdd(multipleIndex,
                        Uint(NatMul(FromInt(w.nextMultipleFactor), sievingPrime))))
    IN  [sieve |-> [sv EXCEPT ![ToInt(multipleIndex)] = IntAnd(@, 255 - w.unsetBit)],
         multipleIndex |-> Uint(NatAdd(stepped, FromInt(w.correct))),
         wheelIndex |-> UintAddSigned(wheelIndex, w.next)]

\* the sieve, *multipleIndex and *wheelIndex after the call
unsetBit(MODULO, sv, sievingPrime, multipleIndex, wheelIndex) ==
    LET w == WHEEL(MODULO)[ToInt(wheelIndex)]
        stepped == Uint(NatAdd(multipleIndex,
                        Uint(NatMul(FromInt(w.nextMultipleFactor), sievingPrime))))
    IN  [sieve |-> [sv EXCEPT ![ToInt(multipleIndex)] = IntAnd(@, w.unsetBit)],
         multipleIndex |-> Uint(NatAdd(stepped, FromInt(w.correct))),
         wheelIndex |-> UintAddSigned(wheelIndex, w.next)]

(***************************************************************************)
(* One prime sieved over one segment, as the classes derived from          *)
(* WheelFactorization do it: the sieve starts with every bit set; add() is *)
(* called for a prime whose residue mod 30 has a group of wheel elements,  *)
(* and the store() it calls keeps sievingPrime = prime / 30 with the two   *)
(* indexes; unsetBit is then                                               *)
(* called on that record for as long as its multipleIndex is inside the    *)
(* sieve.                                                                  *)
(***************************************************************************)
\* the size of the sieve array in bytes
SieveSize == 128

SieveStop == NatMul(FromInt(200), Billion)

SievePrimeArgs == {7, 11, 13, 17, 19, 23, 29, 31, 37, 101, 211}

\* lower bounds of segments: multiples of 30, the last one just below 211^2
SieveSegmentLowArgs == {0, 30, 2310, 44520}

SieveInit ==
    /\ sieve = [i \in 0..(SieveSize - 1) |-> 255]
    /\ sieving = [state |-> "none"]
    /\ crossedOff = <<>>
    /\ WPIdle /\ BucketIdle /\ EngineIdle

SieveAdd(MODULO, prime, segmentLow) ==
    /\ sieving.state = "none"
    /\ wheelOffsets_(MODULO)[prime % 30] # Invalid
    /\ LET a == add(MODULO, SieveStop, FromInt(prime), FromInt(segmentLow))
       IN  /\ a.calls # <<>>
           /\ sieving' = [state |-> "stored", MODULO |-> MODULO, prime |-> prime,
                          segmentLow |-> segmentLow,
                          sievingPrime |-> Uint(NatDiv(a.calls[1].sievingPrime, FromInt(30))),
                          multipleIndex |-> a.calls[1].multipleIndex,
                          wheelIndex |-> a.calls[1].wheelIndex]
    /\ UNCHANGED <<sieve, crossedOff, wpVars, bucketVars, engineVars>>

CrossOff ==
    /\ sieving.state = "stored"
    /\ NatLess(sieving.multipleIndex, FromInt(SieveSize))
    /\ LET u == unsetBit(sieving.MODULO, sieve, sieving.sievingPrime,
                         sieving.multipleIndex, sieving.wheelIndex)
       IN  /\ sieve' = u.sieve
           /\ sieving' = [sieving EXCEPT !.multipleIndex = u.multipleIndex,
                                         !.wheelIndex = u.wheelIndex]
           /\ crossedOff' = Append(crossedOff,
                  <<ToInt(sieving.multipleIndex),
                    WHEEL(sieving.MODULO)[ToInt(sieving.wheelIndex)].unsetBit>>)
    /\ UNCHANGED <<wpVars, bucketVars, engineVars>>

SieveNext ==
    \/ \E M \in Modulos, prime \in SievePrimeArgs, segmentLow \in SieveSegmentLowArgs :
          SieveAdd(M, prime, segmentLow)
    \/ CrossOff

SpecSieve == SieveInit /\ [][SieveNext]_vars

(***************************************************************************)
(* One segment sieved end to end with the modulo 30 wheel: the sieve of    *)
(* the segment from 0 that covers [1, EndLimit] starts with every bit set; *)
(* add() is called for every prime from 7 up to the square root of the     *)
(* limit, in ascending or in descending order, each record kept with       *)
(* sievingPrime = prime / 30; then unsetBit is called on each record in    *)
(* turn until its multipleIndex has left the sieve.                        *)
(***************************************************************************)
EndLimit == 1000

\* bytes of a sieve that covers [1, EndLimit]: byte i holds 30 i + 7 .. 30 i + 31
EndSieveSize == (EndLimit \div 30) + 1

\* the primes p >= 7 with p * p <= EndLimit, by trial division
EndPrimes ==
    {p \in 7..EndLimit : p * p <= EndLimit /\ \A d \in 2..(p - 1) : p % d # 0}

\* a set of numbers as a sequence, ascending
Ascending(S) ==
    [i \in 1..Cardinality(S) |->
        CHOOSE p \in S : Cardinality({q \in S : q < p}) = i - 1]

Reversed(q) == [i \in 1..Len(q) |-> q[Len(q) + 1 - i]]

EndInit ==
    /\ sieve = [i \in 0..(EndSieveSize - 1) |-> 255]
    /\ \E order \in {Ascending(EndPrimes), Reversed(Ascending(EndPrimes))} :
          sieving = [state |-> "adding", MODULO |-> 30, segmentLow |-> 0,
                     order |-> order, records |-> <<>>]
    /\ crossedOff = <<>>
    /\ WPIdle /\ BucketIdle /\ EngineIdle

\* the next add() call; after the last one the cross-off pass begins
EndAdd ==
    /\ sieving.state = "adding"
    /\ \E prime \in EndPrimes :
          /\ prime = Head(sieving.order)
          /\ \E a \in {add(30, FromInt(EndLimit), FromInt(prime), FromInt(0))} :
             LET kept == IF a.calls = <<>> THEN <<>>
                         ELSE <<[prime |-> prime,
                                 sievingPrime |->
                                     Uint(NatDiv(a.calls[1].sievingPrime, FromInt(30))),
                                 multipleIndex |-> a.calls[1].multipleIndex,
                                 wheelIndex |-> a.calls[1].wheelIndex]>>
             IN  sieving' = [sieving EXCEPT
                                !.order = Tail(@),
                                !.records = @ \o kept,
                                !.state = IF Tail(sieving.order) = <<>>
                                          THEN "crossing" ELSE "adding"]
    /\ UNCHANGED <<sieve, crossedOff, wpVars, bucketVars, engineVars>>

\* the records whose multipleIndex is still inside the sieve
EndInside ==
    {i \in 1..Len(sieving.records) :
        NatLess(sieving.records[i].multipleIndex, FromInt(EndSieveSize))}

\* one unsetBit call, on the first record that is still inside the sieve
EndCrossOff ==
    /\ sieving.state = "crossing"
    /\ \E i \in EndInside :
          /\ \A y \in EndInside : i <= y
          /\ \E r \in {sieving.records[i]} :
             \E u \in {unsetBit(30, sieve, r.sievingPrime, r.multipleIndex, r.wheelIndex)} :
                 /\ sieve' = u.sieve
                 /\ sieving' = [sieving EXCEPT
                                   !.records[i].multipleIndex = u.multipleIndex,
                                   !.records[i].wheelIndex = u.wheelIndex]
                 /\ crossedOff' = Append(crossedOff,
                        <<ToInt(r.multipleIndex), WHEEL(30)[ToInt(r.wheelIndex)].unsetBit>>)
    /\ UNCHANGED <<wpVars, bucketVars, engineVars>>

EndNext == EndAdd \/ EndCrossOff

SpecEndToEnd == EndInit /\ [][EndNext]_vars

----------------------------------------------------------------------------
\* C8: after set(sievingPrime, multipleIndex, wheelIndex) with multipleIndex
\* < 2^23, wheelIndex < 2^9 and a 32-bit sievingPrime, whatever the record
\* held before, getMultipleIndex(), getWheelIndex() and getSievingPrime()
\* return exactly the three values passed.
C8_SetRoundTrip ==
    (wpCalls # <<>> /\ wpCalls[Len(wpCalls)].op = "set") =>
        LET c == wpCalls[Len(wpCalls)]
        IN  /\ getMultipleIndex(wheelPrime) = c.multipleIndex
            /\ getWheelIndex(wheelPrime) = c.wheelIndex
            /\ getSievingPrime(wheelPrime) = c.sievingPrime

\* the greatest values of all three fields were set over a record that held
\* other bits before (a prior set with different values)
C8_Witness ==
    /\ Len(wpCalls) = 2
    /\ wpCalls[1].op = "set" /\ wpCalls[2].op = "set"
    /\ wpCalls[1].multipleIndex = FromInt(4001)
    /\ wpCalls[1].wheelIndex = FromInt(383)
    /\ wpCalls[2].multipleIndex = NatSub(Pow2(MultipleIndexBits), <<1>>)
    /\ wpCalls[2].wheelIndex = NatSub(Pow2(WheelIndexBits), <<1>>)
    /\ wpCalls[2].sievingPrime = Uint32Max
    /\ getWheelIndex(wheelPrime) = FromInt(511)

----------------------------------------------------------------------------
\* how far past its lower end the search below looks: farther than the
\* greatest distance, 10, between two residues coprime to the wheel's primes
SearchSpan == 11

\* The least multiple m of prime with m > segmentLow + 6, m >= prime^2 and m
\* divisible by none of the wheel's primes, by trial division of the
\* multiples prime * k, for k from (segmentLow + 6) / prime and from prime on.
FirstWheelMultiple(MODULO, prime, segmentLow) ==
    LET low == NatAdd(segmentLow, FromInt(6))
        k0 == NatDiv(low, prime)
        cands == {NatMul(prime, NatAdd(k0, FromInt(j))) : j \in 0..SearchSpan}
                 \cup {NatMul(prime, NatAdd(prime, FromInt(j))) : j \in 0..SearchSpan}
        Ok(m) == /\ NatLess(low, m)
                 /\ NatLeq(NatMul(prime, prime), m)
                 /\ \A p \in WheelPrimes(MODULO) : NatMod(m, FromInt(p)) # <<>>
    IN  CHOOSE m \in cands : Ok(m) /\ \A n \in cands : Ok(n) => NatLeq(m, n)

\* an add() call with a prime the wheel does not exclude has returned
AddReturned ==
    addCall # <<>> /\ PrimeCoprime(engine.MODULO, addCall.prime)

\* (m - segmentLow - 6) / 30 for the first multiple m of the call
ExpectedIndex ==
    NatDiv(NatSub(FirstWheelMultiple(engine.MODULO, addCall.prime, addCall.segmentLow),
                  NatAdd(addCall.segmentLow, FromInt(6))),
           FromInt(30))

\* C1: whenever add(prime, segmentLow), with prime coprime to the wheel's
\* primes, hands a record to store, its multipleIndex equals
\* (m - segmentLow - 6) / 30 for the least multiple m of prime with
\* m > segmentLow + 6, m >= prime^2 and m divisible by no wheel prime.
C1_IndexOfFirstMultiple ==
    (AddReturned /\ addCall.calls # <<>>) =>
        addCall.calls[1].multipleIndex = ExpectedIndex

\* C6: the constructor throws primesieve_error if and only if sieveSize > 2^23
\* or stop > (2^64 - 1) - (2^32 - 1) * WHEEL[0].nextMultipleFactor; so
\* stop = getMaxStop() with sieveSize = 2^23 succeeds and stop =
\* getMaxStop() + 1 fails.
C6_CtorThrowsIff ==
    ctorCall # <<>> =>
        LET maxStop == NatSub(NatSub(Pow2(64), <<1>>),
                              NatMul(NatSub(Pow2(32), <<1>>),
                                     FromInt(WHEEL(ctorCall.MODULO)[0].nextMultipleFactor)))
        IN  /\ ctorCall.thrown <=>
                  (NatLess(Pow2(23), ctorCall.sieveSize) \/ NatLess(maxStop, ctorCall.stop))
            /\ ctorCall.thrown <=> engine.state = "thrown"
            /\ ~ctorCall.thrown => engine.stop_ = ctorCall.stop

\* construction at both limits at once has succeeded
C6_Witness ==
    /\ ctorCall # <<>>
    /\ ctorCall.stop = getMaxStop(ctorCall.MODULO)
    /\ ctorCall.sieveSize = Pow2(23)
    /\ ~ctorCall.thrown /\ engine.state = "ready"

\* C7: in an engine constructed with stop <= getMaxStop(), for a prime < 2^32
\* and segmentLow <= stop, no 64-bit value computed inside add wraps:
\* segmentLow + 6, prime * quotient, prime^2, prime * nextMultipleFactor and
\* multiple + prime * nextMultipleFactor are all <= 2^64 - 1.
C7_NoWrapInAdd ==
    addCall # <<>> =>
        \A i \in 1..Len(addCall.exact) : NatLeq(addCall.exact[i], Uint64Max)

\* add ran to its end with the greatest prime in the last segment below its
\* square, at the greatest stop: values within 2^36 of 2^64
C7_Witness ==
    /\ addCall # <<>>
    /\ addCall.prime = MaxPrime32
    /\ engine.stop_ = getMaxStop(30)
    /\ Len(addCall.exact) = 5
    /\ NatLess(NatSub(Pow2(64), Pow2(36)), addCall.exact[5])

\* C9: add(prime, segmentLow) calls store at most once; it calls it not at
\* all exactly when the first multiple of prime that is > segmentLow + 6,
\* >= prime^2 and coprime to the wheel's primes is greater than stop, so
\* every record handed over is for a multiple <= stop.
C9_StoreIffWithinStop ==
    AddReturned =>
        LET m == FirstWheelMultiple(engine.MODULO, addCall.prime, addCall.segmentLow)
        IN  /\ Len(addCall.calls) <= 1
            /\ addCall.calls = <<>> <=> NatLess(engine.stop_, m)
            /\ addCall.calls # <<>> => NatLeq(m, engine.stop_)

\* add passed its first test and retired the prime at its second: with stop
\* 1001 and the segment from 960, 31 * 32 = 992 <= stop but the first wheel
\* multiple, 31 * 37 = 1147, is not
C9_Witness ==
    /\ AddReturned
    /\ addCall.prime = FromInt(31) /\ addCall.segmentLow = FromInt(960)
    /\ engine.stop_ = FromInt(1001)
    /\ Len(addCall.exact) = 5
    /\ addCall.calls = <<>>

\* C10, as claimed: the first value add hands to store is prime / 30.
C10_HandsSievingPrime ==
    (addCall # <<>> /\ addCall.calls # <<>>) =>
        addCall.calls[1].sievingPrime = NatDiv(addCall.prime, FromInt(30))

\* C10, amended: the first value add hands to store is prime itself,
\* undivided; the division by 30 is left to the store() of the derived class.
C10_HandsPrime ==
    (addCall # <<>> /\ addCall.calls # <<>>) =>
        /\ addCall.calls[1].sievingPrime = addCall.prime
        /\ NatLeq(<<1>>, addCall.prime) =>
              addCall.calls[1].sievingPrime # NatDiv(addCall.prime, FromInt(30))

\* a record was handed over for the prime 31, whose sieving prime is 1
C10_Witness ==
    /\ addCall # <<>> /\ addCall.calls # <<>>
    /\ addCall.prime = FromInt(31)
    /\ addCall.calls[1].sievingPrime = FromInt(31)

----------------------------------------------------------------------------
\* what a written record decodes to
Decode(wp) == <<getSievingPrime(wp), getMultipleIndex(wp), getWheelIndex(wp)>>

Written(wp) == wp.indexes_ # Indeterminate /\ wp.sievingPrime_ # Indeterminate

\* C3: Bucket::store writes the record into the slot at the write cursor and
\* advances the cursor by exactly one slot; it returns true if and only if
\* the slot it wrote was not the last slot (index BUCKETSIZE - 1); when it
\* returns false the record of that call is in the last slot and inside
\* [begin, end).
C3_StoreWritesAtCursor ==
    lastStore.bucket # NULL =>
        LET b == buckets[lastStore.bucket]
            slot == lastStore.cursor
        IN  /\ Written(b.wheelPrimes_[slot])
            /\ Decode(b.wheelPrimes_[slot]) = lastStore.rec
            /\ b.current_ = slot + 1
            /\ lastStore.ret <=> (slot # BUCKETSIZE - 1)
            /\ ~lastStore.ret =>
                  /\ slot = BUCKETSIZE - 1
                  /\ begin(b) <= slot /\ slot < end(b)
                  /\ Decode(Filled(b)[BUCKETSIZE]) = lastStore.rec

\* a store has returned false: it wrote the last slot of the first Bucket
C3_Witness ==
    /\ lastStore.bucket = 1
    /\ lastStore.ret = FALSE
    /\ lastStore.cursor = BUCKETSIZE - 1
    /\ end(buckets[1]) = BUCKETSIZE

\* C4, as claimed: after exactly BUCKETSIZE stores the list is still one
\* Bucket and no store has signalled; it is the store of record number
\* BUCKETSIZE + 1 that returns false and chains the second Bucket.
C4_ChainAtCapacityPlusOne ==
    /\ Len(stored) = BUCKETSIZE => (Len(buckets) = 1 /\ lastStore.ret)
    /\ Len(stored) = BUCKETSIZE + 1 => (Len(buckets) = 2 /\ ~lastStore.ret)

\* C4, amended: fewer than BUCKETSIZE stores leave one Bucket and no signal;
\* the store of record number BUCKETSIZE fills the last slot, returns false
\* and so chains a second, still empty Bucket; record number BUCKETSIZE + 1
\* is the first one written into the second Bucket.
C4_ChainAtCapacity ==
    /\ Len(stored) < BUCKETSIZE =>
          /\ Len(buckets) = 1
          /\ lastStore.bucket # NULL => lastStore.ret
    /\ Len(stored) = BUCKETSIZE =>
          /\ lastStore.bucket = 1 /\ ~lastStore.ret
          /\ Len(buckets) = 2 /\ tail = 2
          /\ next(buckets[1]) = 2
          /\ end(buckets[1]) = BUCKETSIZE
          /\ empty(buckets[2])
    /\ Len(stored) = BUCKETSIZE + 1 =>
          /\ lastStore.bucket = 2 /\ lastStore.cursor = 0 /\ lastStore.ret
          /\ Len(buckets) = 2
          /\ end(buckets[2]) = 1

\* record number BUCKETSIZE + 1 has been stored, into the second Bucket
C4_Witness ==
    /\ Len(stored) = BUCKETSIZE + 1
    /\ Len(buckets) = 2
    /\ end(buckets[1]) = BUCKETSIZE /\ end(buckets[2]) = 1

\* C5: after any number n >= 0 of stores, walking the chain from the first
\* Bucket with hasNext()/next() and reading [begin(), end()) of each Bucket
\* ends at the last appended Bucket and yields exactly the n stored records,
\* each once, in insertion order.
C5_WalkYieldsStored ==
    buckets # <<>> =>
        LET w == Walk(buckets, 1)
        IN  /\ w.last = tail
            /\ Len(w.records) = Len(stored)
            /\ \A i \in 1..Len(stored) : Decode(w.records[i]) = stored[i]

----------------------------------------------------------------------------
\* the multiples prime * k, for k from kFirst to kLast in ascending order,
\* that trial division finds divisible by none of the wheel's primes (the
\* range is halved until it is one k)
RECURSIVE Enumerate(_, _, _, _)
Enumerate(MODULO, prime, kFirst, kLast) ==
    IF kFirst > kLast THEN <<>>
    ELSE IF kFirst = kLast
         THEN (IF CoprimeToWheel(prime * kFirst, MODULO) THEN <<prime * kFirst>> ELSE <<>>)
    ELSE LET mid == (kFirst + kLast) \div 2
         IN  Enumerate(MODULO, prime, kFirst, mid) \o Enumerate(MODULO, prime, mid + 1, kLast)

\* the multiples m of prime with m > segmentLow + 6, m >= prime^2 and m
\* divisible by no wheel prime, in ascending order, up to the first one past
\* the end of the sieve
WheelMultiples(MODULO, prime, segmentLow) ==
    LET low == segmentLow + 6
        after == (low \div prime) + 1
        kFirst == IF after < prime THEN prime ELSE after
        kEnd == ((low + 30 * SieveSize) \div prime) + SearchSpan
    IN  Enumerate(MODULO, prime, kFirst, IF kEnd < kFirst THEN kFirst + SearchSpan ELSE kEnd)

\* where the number m lies in the sieve of the segment from segmentLow: the
\* index of its byte, and the mask that clears its bit and no other
PairOf(m, segmentLow) == <<(m - segmentLow - 6) \div 30, 255 - 2^BitOf(m % 30)>>

\* the successive values of *multipleIndex: the one add() produced, then the
\* one each unsetBit call left
Indexes ==
    [i \in 1..(Len(crossedOff) + 1) |->
        IF i <= Len(crossedOff) THEN crossedOff[i][1] ELSE ToInt(sieving.multipleIndex)]

\* the unsetBit calls made so far found, in order and with nothing between
\* them, the multiples of the enumeration, and have cleared their bits and no
\* others; the index now held is that of the multiple after them
CrossedOffAsEnumerated ==
    LET E == WheelMultiples(sieving.MODULO, sieving.prime, sieving.segmentLow)
        n == Len(crossedOff)
    IN  /\ n < Len(E)
        /\ \A i \in 1..n : crossedOff[i] = PairOf(E[i], sieving.segmentLow)
        /\ ToInt(sieving.multipleIndex) = PairOf(E[n + 1], sieving.segmentLow)[1]
        /\ \A b \in 0..(SieveSize - 1), j \in 0..7 :
              ((sieve[b] \div 2^j) % 2 = 0) <=>
                  (\E i \in 1..n : crossedOff[i] = <<b, 255 - 2^j>>)

\* a prime the wheel does not exclude is being sieved with
SievingCoprime ==
    sieving.state = "stored" /\ PrimeCoprime(sieving.MODULO, FromInt(sieving.prime))

----------------------------------------------------------------------------
\* C11: for a prime whose residue mod 30 is coprime to 30, the wheelIndex add
\* produces lies in [wheelOffsets_[prime % 30], wheelOffsets_[prime % 30] +
\* SIZE), and after any number of unsetBit calls it is still in that group of
\* SIZE elements; so it is always an index of the table of 8 * SIZE
\* elements, and below 2^9.
C11_WheelIndexInGroup ==
    sieving.state = "stored" =>
        LET offset == wheelOffsets_(sieving.MODULO)[sieving.prime % 30]
            size == SIZE(sieving.MODULO)
        IN  /\ NatLeq(FromInt(offset), sieving.wheelIndex)
            /\ NatLess(sieving.wheelIndex, FromInt(offset + size))
            /\ NatLess(sieving.wheelIndex, FromInt(8 * size))
            /\ NatLess(sieving.wheelIndex, Pow2(WheelIndexBits))
            /\ ToInt(sieving.wheelIndex) \in DOMAIN WHEEL(sieving.MODULO)

\* an unsetBit call has stepped from the last element of the last group of
\* wheel210 (index 383) back to the first element of that group
C11_Witness ==
    /\ sieving.state = "stored"
    /\ sieving.MODULO = 210 /\ sieving.prime % 30 = 1
    /\ crossedOff # <<>>
    /\ crossedOff[Len(crossedOff)][2] = WHEEL(210)[8 * SIZE(210) - 1].unsetBit
    /\ sieving.wheelIndex = FromInt(7 * SIZE(210))

----------------------------------------------------------------------------
\* add() has handed over a record for a prime of the wheel's excluded set
\* (2, 3, 5 for MODULO 30; 2, 3, 5, 7 for MODULO 210)
ExcludedRecord ==
    /\ addCall # <<>> /\ addCall.calls # <<>>
    /\ \E p \in WheelPrimes(engine.MODULO) : addCall.prime = FromInt(p)

\* C12, as claimed: for each wheel, add with a prime of the wheel's excluded
\* set looks up the sentinel 0xFF in wheelOffsets_[prime % 30], and any record
\* it produces carries a wheelIndex that is not an index of the table of
\* 8 * SIZE wheel elements.
C12_ExcludedPrimeInvalid ==
    ExcludedRecord =>
        /\ wheelOffsets_(engine.MODULO)[ToInt(addCall.prime) % 30] = Invalid
        /\ ToInt(addCall.calls[1].wheelIndex) \notin DOMAIN WHEEL(engine.MODULO)

\* C12, amended: for 2, 3 and 5 add looks up the sentinel 0xFF and the record
\* carries wheelIndex = 0xFF + INIT[..].wheelIndex, in [255, 255 + SIZE).  For
\* MODULO 30 that is not an index of the 64 wheel elements; for MODULO 210 it
\* lies in 255..302 and is an index of the 384 wheel elements.  For 7 on the
\* MODULO 210 wheel the lookup is wheelOffsets_[7] = 0, no sentinel, and the
\* wheelIndex is an index below SIZE.
C12_SentinelLookup ==
    ExcludedRecord =>
        LET prime == ToInt(addCall.prime)
            MODULO == engine.MODULO
            offset == wheelOffsets_(MODULO)[prime % 30]
            wheelIndex == ToInt(addCall.calls[1].wheelIndex)
        IN  /\ prime \in {2, 3, 5} =>
                /\ offset = Invalid
                /\ Invalid <= wheelIndex /\ wheelIndex < Invalid + SIZE(MODULO)
                /\ MODULO = 30 => wheelIndex \notin DOMAIN WHEEL(MODULO)
                /\ MODULO = 210 => wheelIndex \in DOMAIN WHEEL(MODULO)
            /\ prime = 7 =>
                /\ offset = 0
                /\ wheelIndex < SIZE(MODULO)
                /\ wheelIndex \in DOMAIN WHEEL(MODULO)

\* a record for the prime 3 on the MODULO 210 wheel, whose wheelIndex is an
\* index of wheel210
C12_Witness ==
    /\ ExcludedRecord
    /\ engine.MODULO = 210 /\ addCall.prime = FromInt(3)
    /\ ToInt(addCall.calls[1].wheelIndex) \in DOMAIN WHEEL(210)

----------------------------------------------------------------------------
\* the number that bit j of byte b stands for in the sieve of the segment from 0
NumberAt(b, j) ==
    30 * b + (IF GroupResidue[j + 1] = 1 THEN 31 ELSE GroupResidue[j + 1])

BitSet(b, j) == (sieve[b] \div 2^j) % 2 = 1

\* by trial division
IsPrime(n) == n > 1 /\ \A d \in 2..(n - 1) : n % d # 0

\* every record has left the sieve
EndDone == sieving.state = "crossing" /\ EndInside = {}

\* the numbers of [1, EndLimit] that have a bit in the sieve, and whose bit is
\* still set
Unmarked ==
    {n \in 1..EndLimit :
        \E b \in DOMAIN sieve, j \in 0..7 : NumberAt(b, j) = n /\ BitSet(b, j)}

\* the bits that are still set, as <<byte, bit>>
SetBits == {x \in (DOMAIN sieve) \X (0..7) : BitSet(x[1], x[2])}

PrimesUpToLimit == {n \in 1..EndLimit : IsPrime(n)}

\* C13 as stated: once add() was called for the primes up to 31 and unsetBit
\* on every record until it left the segment, the bits cleared are exactly
\* those of the composite numbers, and exactly 168 numbers of [1, 1000] are
\* left unmarked in the sieve.
C13_Leaves168Unmarked ==
    EndDone =>
        /\ \A b \in DOMAIN sieve, j \in 0..7 : BitSet(b, j) <=> IsPrime(NumberAt(b, j))
        /\ Cardinality(Unmarked) = 168

\* C13, amended: the calls are those for the primes 7 to 31 (2, 3 and 5 have
\* no group of wheel elements).  No call ever clears the bit of a prime; at
\* the end the bits cleared are exactly those of the composite numbers among
\* the numbers 7 .. 30 * sieveSize + 1 that have a bit, so the bits left set
\* are those of the primes from 7 on: the primes of [1, EndLimit] except 2,
\* 3 and 5, which have no bit, and the primes between EndLimit and the last
\* number of the last byte.  For EndLimit = 1000 that is 165 numbers up to
\* 1000 (168 with 2, 3 and 5) and 169 bits in all.
C13_LeavesPrimesFrom7 ==
    /\ sieving.state \in {"adding", "crossing"}
    /\ \A b \in DOMAIN sieve, j \in 0..7 : IsPrime(NumberAt(b, j)) => BitSet(b, j)
    /\ EndDone =>
        /\ \A b \in DOMAIN sieve, j \in 0..7 : BitSet(b, j) <=> IsPrime(NumberAt(b, j))
        /\ Unmarked = PrimesUpToLimit \ {2, 3, 5}
        /\ {2, 3, 5} \subseteq PrimesUpToLimit
        /\ Cardinality(SetBits) =
              Cardinality({n \in 7..(30 * EndSieveSize + 1) : IsPrime(n)})
        /\ EndLimit = 1000 =>
              /\ Cardinality(Unmarked) = 165
              /\ Cardinality(PrimesUpToLimit) = 168
              /\ Cardinality(SetBits) = 169

\* the pass is over: 49 = 7 * 7 and 1001 = 7 * 143 were cleared, 997 and 1009
\* were not, and the 8 records made more than 100 unsetBit calls
C13_Witness ==
    /\ EndDone
    /\ Len(sieving.records) = 8
    /\ Len(crossedOff) > 100
    /\ ~BitSet(1, BitOf(19)) /\ ~BitSet(33, BitOf(11))
    /\ BitSet(32, BitOf(7)) /\ BitSet(33, BitOf(19))
    /\ Cardinality(Unmarked) = 165

----------------------------------------------------------------------------
\* a record was handed to store by an add() call with a prime the wheel does
\* not exclude, in an engine whose construction did not throw
HandedOver ==
    /\ engine.state = "ready"
    /\ ctorCall # <<>> /\ ~ctorCall.thrown
    /\ NatLeq(ctorCall.sieveSize, Pow2(MultipleIndexBits))
    /\ NatLeq(ctorCall.stop, getMaxStop(ctorCall.MODULO))
    /\ AddReturned /\ addCall.calls # <<>>

----------------------------------------------------------------------------
\* C15: a step that appends a node (setNext on the last node, after the store
\* that returned false) leaves every other existing node as it was; in the
\* last node the records written before the step are in the slots they were
\* in, [begin, end) is the prefix the store left, one record longer than
\* before, and the node differs from the one the store left in its forward
\* link only, which now is the new node; the new node is empty.
C15_AppendChangesOnlyLink ==
    [][Len(buckets') = Len(buckets) + 1 =>
          LET old == buckets[tail]
              new == buckets'[tail]
              rec == lastStore'.rec
              left == store(old, rec[1], rec[2], rec[3]).bucket
          IN  /\ \A i \in 1..Len(buckets) : i # tail => buckets'[i] = buckets[i]
              /\ \A k \in 0..(old.current_ - 1) :
                    new.wheelPrimes_[k] = old.wheelPrimes_[k]
              /\ begin(new) = begin(old) /\ end(new) = end(old) + 1
              /\ \A k \in 1..Len(Filled(old)) : Filled(new)[k] = Filled(old)[k]
              /\ Filled(new) = Filled(left)
              /\ new.wheelPrimes_ = left.wheelPrimes_
              /\ new.current_ = left.current_
              /\ next(new) = Len(buckets) + 1 /\ hasNext(new)
              /\ tail' = Len(buckets) + 1
              /\ empty(buckets'[tail'])]_vars

\* two nodes were appended, and the two full nodes still hold, each in its
\* filled prefix, the records that were stored into them
C15_Witness ==
    /\ Len(buckets) = 3 /\ tail = 3
    /\ next(buckets[1]) = 2 /\ next(buckets[2]) = 3
    /\ \A i \in 1..2 :
          /\ Len(Filled(buckets[i])) = BUCKETSIZE
          /\ \A k \in 1..BUCKETSIZE :
                Decode(Filled(buckets[i])[k]) = stored[(i - 1) * BUCKETSIZE + k]
    /\ stored[1] # stored[BUCKETSIZE + 1]

----------------------------------------------------------------------------
\* bit j of the byte x
BitAt(x, j) == (x \div 2^j) % 2

\* C16: one unsetBit call leaves every byte of the sieve other than
\* sieve[multipleIndex], for the multipleIndex on entry, as it was; in that
\* byte no bit that was 0 becomes 1 and a bit changes only if it is the one
\* bit that is 0 in WHEEL[wheelIndex].unsetBit, for the wheelIndex on entry;
\* sievingPrime is as it was, and of the record only multipleIndex and
\* wheelIndex are assigned.
C16_UnsetBitFrame ==
    [][crossedOff' # crossedOff =>
          LET at == ToInt(sieving.multipleIndex)
              mask == WHEEL(sieving.MODULO)[ToInt(sieving.wheelIndex)].unsetBit
          IN  /\ DOMAIN sieve' = DOMAIN sieve
              /\ at \in DOMAIN sieve
              /\ \A b \in DOMAIN sieve : b # at => sieve'[b] = sieve[b]
              /\ \A j \in 0..7 : BitAt(sieve[at], j) = 0 => BitAt(sieve'[at], j) = 0
              /\ Cardinality({j \in 0..7 : BitAt(mask, j) = 0}) = 1
              /\ \A j \in 0..7 :
                    BitAt(sieve'[at], j) # BitAt(sieve[at], j) => BitAt(mask, j) = 0
              /\ \A j \in 0..7 : BitAt(mask, j) = 0 => BitAt(sieve'[at], j) = 0
              /\ sieving'.sievingPrime = sieving.sievingPrime
              /\ sieving' = [sieving EXCEPT !.multipleIndex = sieving'.multipleIndex,
                                            !.wheelIndex = sieving'.wheelIndex]]_vars

\* two calls have cleared two bits of the same byte, the second one in a
\* byte that already had a 0 bit, and a third call has cleared a bit of
\* another byte
C16_Witness ==
    /\ sieving.state = "stored"
    /\ Len(crossedOff) >= 3
    /\ \E i, k \in 1..Len(crossedOff) :
          /\ i < k
          /\ crossedOff[i][1] = crossedOff[k][1]
          /\ crossedOff[i][2] # crossedOff[k][2]
          /\ sieve[crossedOff[i][1]] = IntAnd(crossedOff[i][2], crossedOff[k][2])
          /\ crossedOff[Len(crossedOff)][1] > crossedOff[k][1]

----------------------------------------------------------------------------
\* C17: right after reset() the Bucket is the one before the call with the
\* cursor at begin(): empty() is true, next() and hasNext() are as before and
\* no slot was written.  From then on, as in a fresh Bucket, the k-th store
\* returns true for k < BUCKETSIZE and false for k = BUCKETSIZE, and
\* [begin, end) holds exactly the records stored since the reset, in
\* insertion order.
C17_ResetRewindsCursorOnly ==
    LET b == buckets[1]
    IN  /\ lastStore.op = "reset" =>
              /\ empty(b) /\ begin(b) = end(b)
              /\ next(b) = next(lastStore.before)
              /\ hasNext(b) <=> hasNext(lastStore.before)
              /\ b.wheelPrimes_ = lastStore.before.wheelPrimes_
              /\ b = [lastStore.before EXCEPT !.current_ = 0]
        /\ Len(stored) <= BUCKETSIZE
        /\ Len(Filled(b)) = Len(stored)
        /\ \A k \in 1..Len(stored) :
              /\ Written(Filled(b)[k])
              /\ Decode(Filled(b)[k]) = stored[k]
        /\ lastStore.op = "store" => (lastStore.ret <=> Len(stored) < BUCKETSIZE)
        /\ (lastStore.op # "reset" /\ Len(stored) = BUCKETSIZE) => ~lastStore.ret

\* a full, linked Bucket was reset and filled again with other records: the
\* BUCKETSIZE-th store after the reset has returned false
C17_Witness ==
    /\ lastStore.op = "store" /\ ~lastStore.ret
    /\ lastStore.resets > 0
    /\ Len(lastStore.dropped) = BUCKETSIZE
    /\ Len(stored) = BUCKETSIZE
    /\ \A k \in 1..BUCKETSIZE : Decode(lastStore.dropped[k]) # stored[k]
    /\ hasNext(buckets[1]) /\ next(buckets[1]) = 2

----------------------------------------------------------------------------
\* the last call made on the record was op, the one before it was before
LastTwo(before, op) ==
    /\ Len(wpCalls) >= 2
    /\ wpCalls[Len(wpCalls) - 1].op = before
    /\ wpCalls[Len(wpCalls)].op = op

\* C18: whatever the record held, after setWheelIndex(w) and then
\* setMultipleIndex(m), with w < 2^9 and m < 2^23, getWheelIndex() is w,
\* getMultipleIndex() is m and getSievingPrime() is what it was.  Right
\* after setWheelIndex(w) the multipleIndex field is 0; setMultipleIndex(m)
\* leaves wheelIndex and sievingPrime as they were and ORs m into the
\* multipleIndex field: after set(.., m0, w0) it yields m0 | m, not m.
C18_WheelIndexThenMultipleIndex ==
    Len(wpCalls) >= 1 =>
        LET call == wpCalls[Len(wpCalls)]
        IN  /\ call.op = "setWheelIndex" =>
                  /\ getWheelIndex(wheelPrime) = call.wheelIndex
                  /\ getMultipleIndex(wheelPrime) = <<>>
                  /\ getSievingPrime(wheelPrime) = call.sievingPrime
            /\ call.op = "setMultipleIndex" =>
                  /\ getWheelIndex(wheelPrime) = call.wheelIndex
                  /\ getSievingPrime(wheelPrime) = call.sievingPrime
                  /\ BitAnd(getMultipleIndex(wheelPrime), call.multipleIndex)
                        = call.multipleIndex
            /\ LastTwo("setWheelIndex", "setMultipleIndex") =>
                  /\ getWheelIndex(wheelPrime) = wpCalls[Len(wpCalls) - 1].wheelIndex
                  /\ getMultipleIndex(wheelPrime) = call.multipleIndex
                  /\ getSievingPrime(wheelPrime) = wpCalls[Len(wpCalls) - 1].sievingPrime
            /\ LastTwo("set", "setMultipleIndex") =>
                  /\ getWheelIndex(wheelPrime) = wpCalls[Len(wpCalls) - 1].wheelIndex
                  /\ getMultipleIndex(wheelPrime) =
                        BitOr(wpCalls[Len(wpCalls) - 1].multipleIndex, call.multipleIndex)

\* a record whose three fields were not 0 received setWheelIndex(2^9 - 1) and
\* then setMultipleIndex(4001), and decodes to these two values
C18_Witness ==
    /\ LastTwo("setWheelIndex", "setMultipleIndex")
    /\ wpCalls[1].multipleIndex # <<>> /\ wpCalls[1].sievingPrime = Uint32Max
    /\ wpCalls[1].wheelIndex = NatSub(Pow2(WheelIndexBits), <<1>>)
    /\ wpCalls[2].multipleIndex = FromInt(4001)
    /\ getWheelIndex(wheelPrime) = FromInt(511)
    /\ getMultipleIndex(wheelPrime) = FromInt(4001)
    /\ getSievingPrime(wheelPrime) = Uint32Max

=========================================================================
